---- MODULE Spec2Model ----
(***************************************************************************)
(* Appraisal-AutoPull: the contact store and verification flow of app.py   *)
(* (save_email / confirm_email over the SQLite table "emails") and the     *)
(* location resolver (get_emails_for_location over the jurisdiction        *)
(* tables).                                                                *)
(*                                                                         *)
(* Python strings that the code inspects (strip, split, lower, regex) are  *)
(* sequences of one-character strings; None is the tuple <<"None">>, which *)
(* no string equals.  Recipient addresses in the jurisdiction tables are   *)
(* only tested for emptiness, so they are TLA+ strings.                    *)
(***************************************************************************)
EXTENDS Integers, Sequences, FiniteSets, TLC

\* ------------------------------------------------------------------ bounds
\* Worker slots serving requests concurrently.
NumProcs == 2
\* Tokens secrets.token_urlsafe hands out in one behaviour.
MaxTokens == 2

Procs == 1..NumProcs

\* ----------------------------------------------------------- Python values
None == <<"None">>

IsSpace(c) == c \in {" ", "\t", "\n"}

UpperChars == <<"A","B","C","D","E","F","G","H","I","J","K","L","M",
                "N","O","P","Q","R","S","T","U","V","W","X","Y","Z">>
LowerChars == <<"a","b","c","d","e","f","g","h","i","j","k","l","m",
                "n","o","p","q","r","s","t","u","v","w","x","y","z">>

\* str.lower() on one character
LowerChar(c) ==
    IF \E i \in 1..Len(UpperChars) : UpperChars[i] = c
    THEN LowerChars[CHOOSE i \in 1..Len(UpperChars) : UpperChars[i] = c]
    ELSE c

\* str.lower()
Lower(s) == [i \in 1..Len(s) |-> LowerChar(s[i])]

RECURSIVE LStrip(_)
LStrip(s) == IF s # <<>> /\ IsSpace(Head(s)) THEN LStrip(Tail(s)) ELSE s

RECURSIVE RStrip(_)
RStrip(s) ==
    IF s # <<>> /\ IsSpace(s[Len(s)]) THEN RStrip(SubSeq(s, 1, Len(s) - 1)) ELSE s

\* str.strip()
Strip(s) == RStrip(LStrip(s))

\* Python truthiness of an Optional[str]
Truthy(x) == x # None /\ x # <<>>

\* x or d
OrElse(x, d) == IF Truthy(x) THEN x ELSE d

\* ------------------------------------------------------------- EMAIL_RE
NoAtNoSpace(s) == \A i \in 1..Len(s) : s[i] # "@" /\ ~IsSpace(s[i])

\* EMAIL_RE.match(s) for ^[^@\s]+@[^@\s]+\.[^@\s]+$ ; s is already stripped,
\* so the "$ before a final newline" case of Python does not arise.
EMAIL_RE_match(s) ==
    \E i \in 1..Len(s), j \in 1..Len(s) :
        /\ s[i] = "@" /\ s[j] = "."
        /\ 1 < i /\ i + 1 < j /\ j < Len(s)
        /\ NoAtNoSpace(SubSeq(s, 1, i - 1))
        /\ NoAtNoSpace(SubSeq(s, i + 1, j - 1))
        /\ NoAtNoSpace(SubSeq(s, j + 1, Len(s)))

\* ------------------------------------------------------- request payloads
E_abc  == <<"a","@","b",".","c">>
E_def  == <<"d","@","e",".","f">>
N_Ann  == <<"A","n","n">>

OptAbsent  == [type |-> "absent"]
OptBool(b) == [type |-> "bool", val |-> b]
OptStr(s)  == [type |-> "str", val |-> s]

\* The opt_in parsing of save_email
ParseOptIn(raw) ==
    IF raw.type = "str"
    THEN Lower(raw.val) \in {<<"1">>, <<"t","r","u","e">>, <<"y","e","s">>, <<"o","n">>}
    ELSE IF raw.type = "bool" THEN raw.val ELSE TRUE

\* Bodies of POST /save_email the model draws from
SavePayloads ==
    { [email |-> E_abc,                name |-> N_Ann, opt_in |-> OptAbsent],
      [email |-> <<" ">> \o E_abc,     name |-> <<" ">>, opt_in |-> OptStr(<<"N","o">>)],
      [email |-> E_def,                name |-> None,  opt_in |-> OptBool(FALSE)],
      [email |-> None,                 name |-> N_Ann, opt_in |-> OptAbsent],
      [email |-> <<"a","@","b">>,      name |-> None,  opt_in |-> OptBool(TRUE)] }

\* Addresses email_exists is asked about
ExistsInputs == {E_abc, E_def}

\* ---------------------------------------------------------------- tokens
TokenDigits == <<"1","2","3","4","5","6","7","8","9">>

\* token_urlsafe returning the same value at every draw (a generator seeded
\* with a constant)
token_urlsafe_Fixed(k) == <<"t","k",TokenDigits[1]>>

\* secrets.token_urlsafe(16): the k-th draw.  A 128-bit random value is
\* modelled as a value never drawn before.
token_urlsafe(k) == <<"t","k",TokenDigits[k]>>

Garbage == <<"g","a","r","b","a","g","e">>

\* ?token= values a request may carry when the tokens of the links mailed so
\* far are sent: absent, blank, not a token, a token, a token with a blank
TokenParams(sent) ==
    {None, <<" ">>, Garbage}
        \cup sent
        \cup {t \o <<" ">> : t \in sent \cap {token_urlsafe(1)}}

\* ------------------------------------------------------------------ state
VARIABLES
    emails,     \* table "emails": sequence of rows, row i has id i (AUTOINCREMENT, no DELETE)
    clock,      \* datetime.utcnow(), read as a strictly increasing stamp
    issued,     \* number of tokens drawn so far
    pc,         \* pc[p]: the statement worker p is about to run
    loc,        \* loc[p]: the local variables of the request p is serving
    resp,       \* resp[p]: the HTTP response (or function result) p produced
    outbox,     \* calls of send_email_via_smtp for verification emails, with their result
    stored,     \* history: the <<token, email>> add_pending_email committed, in commit order
    flips,      \* history: flips[i] counts commits that took row i from confirmed=0 to 1
    smtp,       \* the SMTP_* environment of the process
    csvRows,    \* rows of mappings.csv that load_email_mappings_from_csv has applied
    query,      \* the (city, county) get_emails_for_location was last called with
    answer,     \* what that call returned
    address,    \* the argument extract_city_from_address is called with
    parsed,     \* <<>> before that call, <<its return value>> after it
    sendreq     \* POST /api/send-requests: its inputs, its sends and its response

dbVars == <<emails, clock, issued, pc, loc, resp, outbox, stored, flips, smtp>>
resVars == <<csvRows, query, answer>>
reqVars == <<address, parsed, sendreq>>
vars == <<emails, clock, issued, pc, loc, resp, outbox, stored, flips, smtp,
          csvRows, query, answer, address, parsed, sendreq>>

NoLoc ==
    [kind |-> "none", email |-> None, name |-> None, opt_in |-> TRUE, token |-> None,
     now |-> 0, row |-> <<>>, branch |-> "none", send |-> "none", confirmed0 |-> {}]

NoResp == [status |-> 0, success |-> FALSE, text |-> ""]

\* The ids of the confirmed rows (loc[p].confirmed0 keeps them as they were
\* when p's request arrived: a history value, read by no statement)
ConfirmedIds(tbl) == {i \in 1..Len(tbl) : tbl[i].confirmed = 1}

\* jsonify({...}), status
Json(success, text, status) == [status |-> status, success |-> success, text |-> text]

\* make_response(html, status)
Html(text, status) == [status |-> status, success |-> (status = 200), text |-> text]

\* The SMTP environment: variables missing, complete, or SMTP_PORT not a number
SmtpConfigs == {"unconfigured", "configured", "badport"}

\* The contact store after init_contacts_db, no request in flight
DbInit ==
    /\ emails = <<>>
    /\ clock = 1
    /\ issued = 0
    /\ pc = [p \in Procs |-> "idle"]
    /\ loc = [p \in Procs |-> NoLoc]
    /\ resp = [p \in Procs |-> NoResp]
    /\ outbox = {}
    /\ stored = <<>>
    /\ flips = <<>>

\* The jurisdiction tables as written in app.py, no lookup made yet
ResInit ==
    /\ csvRows = <<>>
    /\ query = <<>>
    /\ answer = <<>>

\* No call of send_requests yet: the fields of its request and of its response
NoSendReq ==
    [state |-> "none", address |-> None, city |-> None, county |-> None,
     send_to_pva |-> TRUE, send_to_zoning |-> TRUE,
     emails_used |-> [pva |-> "", zoning |-> ""],
     results |-> [pva |-> "none", zoning |-> "none"],
     sends |-> <<>>, success |-> FALSE, status |-> 0]

\* No address parsed and no /api/send-requests served yet
ReqInit ==
    /\ address = None
    /\ parsed = <<>>
    /\ sendreq = NoSendReq

Init ==
    /\ DbInit
    /\ smtp \in SmtpConfigs
    /\ ResInit
    /\ ReqInit

\* ------------------------------------------------------- SQL statements
\* SELECT confirmed FROM emails WHERE email = ? ; fetchone()
SelectConfirmedByEmail(tbl, email) ==
    IF \E i \in 1..Len(tbl) : tbl[i].email = email
    THEN <<tbl[CHOOSE i \in 1..Len(tbl) : tbl[i].email = email].confirmed>>
    ELSE <<>>

\* SELECT id, name, email, confirmed FROM emails WHERE token = ? LIMIT 1 ; fetchone()
SelectByToken(tbl, token) ==
    IF \E i \in 1..Len(tbl) : tbl[i].token = token
    THEN LET i == CHOOSE i \in 1..Len(tbl) :
                    /\ tbl[i].token = token
                    /\ \A j \in 1..(i - 1) : tbl[j].token # token
         IN  <<tbl[i].id, tbl[i].name, tbl[i].email, tbl[i].confirmed>>
    ELSE <<>>

\* UpdatePending with the token column left out of the SET list
UpdatePending_KeepsToken(tbl, email, token, name, opt_in, now) ==
    [i \in 1..Len(tbl) |->
        IF tbl[i].email = email
        THEN [tbl[i] EXCEPT !.name = name,
                            !.opt_in = IF opt_in THEN 1 ELSE 0, !.created_at = now]
        ELSE tbl[i]]

\* UpdatePending written as a REPLACE of the row: confirmed falls back to 0
UpdatePending_Replaces(tbl, email, token, name, opt_in, now) ==
    [i \in 1..Len(tbl) |->
        IF tbl[i].email = email
        THEN [tbl[i] EXCEPT !.token = token, !.name = name,
                            !.opt_in = IF opt_in THEN 1 ELSE 0, !.created_at = now,
                            !.confirmed = 0, !.confirmed_at = 0]
        ELSE tbl[i]]

\* UPDATE emails SET token = ?, name = ?, opt_in = ?, created_at = ? WHERE email = ?
UpdatePending(tbl, email, token, name, opt_in, now) ==
    [i \in 1..Len(tbl) |->
        IF tbl[i].email = email
        THEN [tbl[i] EXCEPT !.token = token, !.name = name,
                            !.opt_in = IF opt_in THEN 1 ELSE 0, !.created_at = now]
        ELSE tbl[i]]

\* The UNIQUE constraint on emails.email: does INSERT raise IntegrityError ?
UniqueEmailViolated(tbl, email) == \E i \in 1..Len(tbl) : tbl[i].email = email

\* INSERT INTO emails (name, email, token, confirmed, opt_in, created_at) VALUES (?, ?, ?, 0, ?, ?)
\* confirmed_at is NULL, written 0 (stamps start at 1)
InsertPending(tbl, email, token, name, opt_in, now) ==
    Append(tbl, [id |-> Len(tbl) + 1, name |-> name, email |-> email, token |-> token,
                 confirmed |-> 0, opt_in |-> IF opt_in THEN 1 ELSE 0,
                 created_at |-> now, confirmed_at |-> 0])

\* UPDATE emails SET confirmed = 1, confirmed_at = ? WHERE id = ?
UpdateConfirmed(tbl, id, now) ==
    [i \in 1..Len(tbl) |->
        IF tbl[i].id = id
        THEN [tbl[i] EXCEPT !.confirmed = 1, !.confirmed_at = now]
        ELSE tbl[i]]

\* SELECT 1 FROM emails WHERE email = ? LIMIT 1 ; fetchone() is not None
email_exists(tbl, email) == \E i \in 1..Len(tbl) : tbl[i].email = email

\* --------------------------------------------------------- mail transport
\* send_email_via_smtp under environment cfg when the network answers net:
\* "raise" (int(SMTP_PORT) fails), "simulated", "ok", or "error" (the caught
\* exception, returned as {"error": ...})
send_email_via_smtp(cfg, net) ==
    IF cfg = "badport" THEN "raise"
    ELSE IF cfg = "unconfigured" THEN "simulated"
    ELSE IF net = "ok" THEN "ok" ELSE "error"

\* ------------------------------------------------------------- save_email
\* The request ends: p holds its response
Reply(p, branch, r) ==
    /\ pc' = [pc EXCEPT ![p] = "done"]
    /\ loc' = [loc EXCEPT ![p].branch = branch]
    /\ resp' = [resp EXCEPT ![p] = r]

\* AlreadyConfirmedRow comparing the fetched tuple, not its column, with 1
\* ("row == 1", which no tuple satisfies)
AlreadyConfirmedRow_Tuple(row) == row # <<>> /\ FALSE

\* add_pending_email: "if row: if row[0] == 1: return False"
AlreadyConfirmedRow(row) == row # <<>> /\ row[1] = 1

\* POST /save_email, up to the connect of add_pending_email (lines 362-225)
save_email_begin(p, data) ==
    /\ pc[p] = "idle"
    /\ LET email == Strip(OrElse(data.email, <<>>))
           name == OrElse(Strip(OrElse(data.name, <<>>)), None)
           opt_in == ParseOptIn(data.opt_in)
       IN  IF ~Truthy(email)
           THEN /\ pc' = [pc EXCEPT ![p] = "done"]
                /\ loc' = [loc EXCEPT ![p] = [NoLoc EXCEPT !.kind = "save_email",
                                                           !.branch = "Invalid"]]
                /\ resp' = [resp EXCEPT ![p] = Json(FALSE, "Email is required.", 400)]
                /\ UNCHANGED <<issued, clock>>
           ELSE IF ~EMAIL_RE_match(email)
           THEN /\ pc' = [pc EXCEPT ![p] = "done"]
                /\ loc' = [loc EXCEPT ![p] = [NoLoc EXCEPT !.kind = "save_email",
                                                           !.email = email,
                                                           !.branch = "Invalid"]]
                /\ resp' = [resp EXCEPT ![p] = Json(FALSE, "Invalid email format.", 400)]
                /\ UNCHANGED <<issued, clock>>
           ELSE /\ issued < MaxTokens
                /\ issued' = issued + 1
                /\ clock' = clock + 1
                /\ pc' = [pc EXCEPT ![p] = "add_select"]
                /\ loc' = [loc EXCEPT ![p] =
                             [NoLoc EXCEPT !.kind = "save_email", !.email = email,
                                           !.name = name, !.opt_in = opt_in,
                                           !.token = token_urlsafe(issued + 1),
                                           !.now = clock,
                                           !.confirmed0 = ConfirmedIds(emails)]]
                /\ UNCHANGED resp
    /\ UNCHANGED <<emails, outbox, stored, flips, smtp, resVars, reqVars>>

\* add_pending_email: the SELECT, and the early return on a confirmed row
add_pending_select(p) ==
    /\ pc[p] = "add_select"
    /\ LET row == SelectConfirmedByEmail(emails, loc[p].email)
       IN  IF AlreadyConfirmedRow(row)
           THEN /\ pc' = [pc EXCEPT ![p] = "done"]
                /\ loc' = [loc EXCEPT ![p].row = row, ![p].branch = "AlreadyConfirmed"]
                /\ resp' = [resp EXCEPT ![p] = Json(TRUE, "Email already confirmed.", 200)]
           ELSE /\ pc' = [pc EXCEPT ![p] = IF row # <<>> THEN "add_update" ELSE "add_insert"]
                /\ loc' = [loc EXCEPT ![p].row = row]
                /\ UNCHANGED resp
    /\ UNCHANGED <<emails, clock, issued, outbox, stored, flips, smtp, resVars, reqVars>>

\* add_pending_email: UPDATE and commit, for a row read as unconfirmed
add_pending_update(p) ==
    /\ pc[p] = "add_update"
    /\ emails' = UpdatePending(emails, loc[p].email, loc[p].token, loc[p].name,
                               loc[p].opt_in, loc[p].now)
    /\ stored' = Append(stored, <<loc[p].token, loc[p].email>>)
    /\ pc' = [pc EXCEPT ![p] = "send"]
    /\ loc' = [loc EXCEPT ![p].branch = "Updated"]
    /\ UNCHANGED <<clock, issued, resp, outbox, flips, smtp, resVars, reqVars>>

\* add_pending_email: INSERT and commit, when the SELECT found no row; the
\* IntegrityError of the UNIQUE constraint is caught by save_email (500)
add_pending_insert(p) ==
    /\ pc[p] = "add_insert"
    /\ IF UniqueEmailViolated(emails, loc[p].email)
       THEN /\ Reply(p, "IntegrityError", Json(FALSE, "Server error saving email.", 500))
            /\ UNCHANGED <<emails, stored, flips>>
       ELSE /\ emails' = InsertPending(emails, loc[p].email, loc[p].token, loc[p].name,
                                       loc[p].opt_in, loc[p].now)
            /\ stored' = Append(stored, <<loc[p].token, loc[p].email>>)
            /\ flips' = Append(flips, 0)
            /\ pc' = [pc EXCEPT ![p] = "send"]
            /\ loc' = [loc EXCEPT ![p].branch = "Inserted"]
            /\ UNCHANGED resp
    /\ UNCHANGED <<clock, issued, outbox, smtp, resVars, reqVars>>

\* The response of save_email once send_email_via_smtp came back with result
SaveEmailReply(result) ==
    IF result = "raise"
    THEN Json(FALSE, "Failed to send verification email.", 500)
    ELSE Json(TRUE, "Verification email sent. Check your inbox.", 200)

\* save_email: build and send the verification email, answer (lines 388-398)
save_email_send(p, net) ==
    /\ pc[p] = "send"
    /\ LET result == send_email_via_smtp(smtp, net)
       IN  /\ outbox' = outbox \cup
                 {[to |-> loc[p].email, token |-> loc[p].token, result |-> result]}
           /\ pc' = [pc EXCEPT ![p] = "done"]
           /\ loc' = [loc EXCEPT ![p].send = result]
           /\ resp' = [resp EXCEPT ![p] = SaveEmailReply(result)]
    /\ UNCHANGED <<emails, clock, issued, stored, flips, smtp, resVars, reqVars>>

\* ---------------------------------------------------------- confirm_email
\* GET /confirm_email: read ?token= (lines 403-405)
confirm_begin(p, param) ==
    /\ pc[p] = "idle"
    /\ LET token == Strip(OrElse(param, <<>>))
       IN  IF ~Truthy(token)
           THEN /\ pc' = [pc EXCEPT ![p] = "done"]
                /\ loc' = [loc EXCEPT ![p] = [NoLoc EXCEPT !.kind = "confirm_email",
                                                           !.branch = "Missing"]]
                /\ resp' = [resp EXCEPT ![p] = Html("Invalid verification link", 400)]
           ELSE /\ pc' = [pc EXCEPT ![p] = "confirm_select"]
                /\ loc' = [loc EXCEPT ![p] = [NoLoc EXCEPT !.kind = "confirm_email",
                                                           !.token = token,
                                                           !.confirmed0 = ConfirmedIds(emails)]]
                /\ UNCHANGED resp
    /\ UNCHANGED <<emails, clock, issued, outbox, stored, flips, smtp, resVars, reqVars>>

\* The page confirm_email_route builds from what confirm_email returned:
\* None (no row) gives 400, a row dict gives the confirmation page
ConfirmReply(found) ==
    IF found THEN Html("Thanks - your email is confirmed", 200)
    ELSE Html("Invalid or expired token", 400)

\* confirm_email: the SELECT, and the returns for no row / a confirmed row
confirm_select(p) ==
    /\ pc[p] = "confirm_select"
    /\ LET row == SelectByToken(emails, loc[p].token)
       IN  IF row = <<>>
           THEN /\ pc' = [pc EXCEPT ![p] = "done"]
                /\ loc' = [loc EXCEPT ![p].row = row, ![p].branch = "NotFound"]
                /\ resp' = [resp EXCEPT ![p] = ConfirmReply(FALSE)]
           ELSE IF row[4] = 1
           THEN /\ pc' = [pc EXCEPT ![p] = "done"]
                /\ loc' = [loc EXCEPT ![p].row = row, ![p].branch = "AlreadyConfirmed"]
                /\ resp' = [resp EXCEPT ![p] = ConfirmReply(TRUE)]
           ELSE /\ pc' = [pc EXCEPT ![p] = "confirm_update"]
                /\ loc' = [loc EXCEPT ![p].row = row]
                /\ UNCHANGED resp
    /\ UNCHANGED <<emails, clock, issued, outbox, stored, flips, smtp, resVars, reqVars>>

\* confirm_email: UPDATE by id and commit, for a row read as unconfirmed
confirm_update(p) ==
    /\ pc[p] = "confirm_update"
    /\ LET id == loc[p].row[1]
       IN  /\ emails' = UpdateConfirmed(emails, id, clock)
           /\ flips' = [flips EXCEPT ![id] = @ + (IF emails[id].confirmed = 0 THEN 1 ELSE 0)]
    /\ clock' = clock + 1
    /\ pc' = [pc EXCEPT ![p] = "done"]
    /\ loc' = [loc EXCEPT ![p].now = clock, ![p].branch = "Confirmed"]
    /\ resp' = [resp EXCEPT ![p] = ConfirmReply(TRUE)]
    /\ UNCHANGED <<issued, outbox, stored, smtp, resVars, reqVars>>

\* email_exists(email), one SELECT
email_exists_call(p, email) ==
    /\ pc[p] = "idle"
    /\ pc' = [pc EXCEPT ![p] = "done"]
    /\ loc' = [loc EXCEPT ![p] = [NoLoc EXCEPT !.kind = "email_exists", !.email = email]]
    /\ resp' = [resp EXCEPT ![p] = [status |-> 0, success |-> email_exists(emails, email),
                                    text |-> "email_exists"]]
    /\ UNCHANGED <<emails, clock, issued, outbox, stored, flips, smtp, resVars, reqVars>>

\* The response has been delivered; the worker takes the next request
finish(p) ==
    /\ pc[p] = "done"
    /\ pc' = [pc EXCEPT ![p] = "idle"]
    /\ loc' = [loc EXCEPT ![p] = NoLoc]
    /\ resp' = [resp EXCEPT ![p] = NoResp]
    /\ UNCHANGED <<emails, clock, issued, outbox, stored, flips, smtp, resVars, reqVars>>

\* One step of worker p
Step(p) ==
    \/ \E data \in SavePayloads : save_email_begin(p, data)
    \/ add_pending_select(p)
    \/ add_pending_update(p)
    \/ add_pending_insert(p)
    \/ \E net \in {"ok", "fail"} : save_email_send(p, net)
    \/ \E param \in TokenParams({stored[i][1] : i \in 1..Len(stored)}) :
           confirm_begin(p, param)
    \/ confirm_select(p)
    \/ confirm_update(p)
    \/ \E email \in ExistsInputs : email_exists_call(p, email)
    \/ finish(p)

\* Requests served concurrently (Flask's threaded server): steps interleave
Next == \E p \in Procs : Step(p)

Spec == Init /\ [][Next]_vars

\* Requests served one at a time: a request starts when no other is in flight
SeqNext == \E p \in Procs : (\A q \in Procs \ {p} : pc[q] = "idle") /\ Step(p)

SeqSpec == Init /\ [][SeqNext]_vars

\* ------------------------------------------------------ jurisdiction tables
\* A Python dict is the sequence of its <<key, value>> items in insertion order.
DictHas(d, k) == \E i \in 1..Len(d) : d[i][1] = k

\* d.get(k, default)
DictGet(d, k, default) ==
    IF DictHas(d, k) THEN d[CHOOSE i \in 1..Len(d) : d[i][1] = k][2] ELSE default

\* d[k] = v : an existing key keeps its place, a new key goes last
DictSet(d, k, v) ==
    IF DictHas(d, k)
    THEN [i \in 1..Len(d) |-> IF d[i][1] = k THEN <<k, v>> ELSE d[i]]
    ELSE Append(d, <<k, v>>)

\* {**a, **b} written with "or": an empty string of b does not shadow a
Merge_BackfillsEmpty(a, b) ==
    [k \in DOMAIN a \cup DOMAIN b |-> IF k \in DOMAIN b /\ b[k] # "" THEN b[k] ELSE a[k]]

\* {**a, **b}
Merge(a, b) ==
    [k \in DOMAIN a \cup DOMAIN b |-> IF k \in DOMAIN b THEN b[k] ELSE a[k]]

CITY_EMAIL_MAP ==
    <<
       <<<<"S","p","r","i","n","g","f","i","e","l","d">>,
         [pva |-> "pva@springfield.gov", zoning |-> "zoning@springfield.gov"]>>,
       <<<<"M","e","t","r","o","p","o","l","i","s">>,
         [pva |-> "pva@metropolis.gov", zoning |-> "zoning@metropolis.gov"]>>
    >>

GRANT_CITY_ZONING_MAP ==
    <<
       <<<<"c","o","r","i","n","t","h">>, "">>,
       <<<<"c","r","i","t","t","e","n","d","e","n">>, "dmartin@cityofcrittendenky.gov">>,
       <<<<"d","r","y"," ","r","i","d","g","e">>, "">>,
       <<<<"w","i","l","l","i","a","m","s","t","o","w","n">>, "cityofwtown@wtownky.org">>
    >>

COUNTY_EMAIL_MAP ==
    <<
       <<<<"a","n","d","e","r","s","o","n">>,
         [pva |-> "BStivers41@gmail.com", zoning |-> "rachelle.lile@roadrunner.com"]>>,
       <<<<"b","o","o","n","e">>,
         [pva |-> "pva@boonecountyky.org", zoning |-> "plancom@boonecountyky.org"]>>,
       <<<<"c","a","r","r","o","l","l">>,
         [pva |-> "bethany.petry@ky.gov", zoning |-> "brianmumphrey@carrolltonky.net"]>>,
       <<<<"f","r","a","n","k","l","i","n">>,
         [pva |-> "Angie.obanion@ky.gov", zoning |-> "autumn.goderwis@franklincounty.ky.gov"]>>,
       <<<<"g","a","l","l","a","t","i","n">>,
         [pva |-> "Sheryl.jones@ky.gov", zoning |-> "jhansen@gallatinky.org"]>>,
       <<<<"g","r","a","n","t">>,
         [pva |-> "Elliott.Anderson@ky.gov"]>>,
       <<<<"k","e","n","t","o","n">>,
         [pva |-> "info.kentonpva@kentoncounty.org", zoning |-> "webmaster01@pdskc.org"]>>,
       <<<<"o","w","e","n">>,
         [pva |-> "blake.robertson@ky.gov", zoning |-> ""]>>,
       <<<<"s","c","o","t","t">>,
         [pva |-> "Tony.McDonald@ky.gov", zoning |-> "rshirley@gscplanning.com"]>>,
       <<<<"t","r","i","m","b","l","e">>,
         [pva |-> "JillM.Mahoney@ky.gov", zoning |-> ""]>>
    >>

\* DEFAULT_PVA_EMAIL / DEFAULT_ZONING_EMAIL unset
DEFAULT_EMAILS == [pva |-> "pva@example.com", zoning |-> "zoning@example.com"]

\* ----------------------------------------------------------- normalize_key
\* Index of the first whitespace character of s, Len(s) + 1 if there is none
FirstSpace(s) ==
    IF \E i \in 1..Len(s) : IsSpace(s[i])
    THEN CHOOSE i \in 1..Len(s) : IsSpace(s[i]) /\ \A j \in 1..(i - 1) : ~IsSpace(s[j])
    ELSE Len(s) + 1

\* str.split(): the maximal runs of non-whitespace
RECURSIVE Split(_)
Split(s) ==
    LET t == LStrip(s)
    IN  IF t = <<>> THEN <<>>
        ELSE <<SubSeq(t, 1, FirstSpace(t) - 1)>> \o Split(SubSeq(t, FirstSpace(t), Len(t)))

\* " ".join(words)
RECURSIVE JoinSpace(_)
JoinSpace(words) ==
    IF words = <<>> THEN <<>>
    ELSE IF Len(words) = 1 THEN words[1]
    ELSE words[1] \o <<" ">> \o JoinSpace(Tail(words))

normalize_key(s) ==
    IF ~Truthy(s) THEN None ELSE Lower(JoinSpace(Split(Strip(s))))

\* ------------------------------------------- load_email_mappings_from_csv
\* A csv row is a sequence of fields: kind and key as character sequences,
\* the two addresses as strings (" " stands for a blank field).
StripAddr(a) == IF a = " " THEN "" ELSE a

\* entry = {} ; if pva: entry["pva"] = pva ; if zoning: entry["zoning"] = zoning
CsvEntry(pva, zoning) ==
    [k \in (IF pva # "" THEN {"pva"} ELSE {}) \cup (IF zoning # "" THEN {"zoning"} ELSE {})
        |-> IF k = "pva" THEN pva ELSE zoning]

\* The body of the "for row in reader" loop on maps = [city, county]
LoadCsvRow(maps, row) ==
    IF Len(row) < 2 THEN maps
    ELSE LET typ == Lower(Strip(row[1]))
             key == Strip(row[2])
             pva == IF Len(row) > 2 THEN StripAddr(row[3]) ELSE ""
             zoning == IF Len(row) > 3 THEN StripAddr(row[4]) ELSE ""
             entry == CsvEntry(pva, zoning)
         IN  IF DOMAIN entry = {} THEN maps
             ELSE IF typ = <<"c","i","t","y">>
                  THEN [maps EXCEPT !.city = DictSet(@, key, entry)]
             ELSE IF typ = <<"c","o","u","n","t","y">>
                  THEN [maps EXCEPT !.county = DictSet(@, key, entry)]
             ELSE maps

RECURSIVE LoadCsvRows(_, _)
LoadCsvRows(maps, rows) ==
    IF rows = <<>> THEN maps ELSE LoadCsvRows(LoadCsvRow(maps, Head(rows)), Tail(rows))

\* CITY_EMAIL_MAP and COUNTY_EMAIL_MAP once the rows read so far are applied
Maps == LoadCsvRows([city |-> CITY_EMAIL_MAP, county |-> COUNTY_EMAIL_MAP], csvRows)

\* ------------------------------------------------ get_emails_for_location
\* The first item of d whose normalized key is key_n ("for k, v in d.items()")
FirstMatch(d, key_n) ==
    CHOOSE i \in 1..Len(d) :
        /\ normalize_key(d[i][1]) = key_n
        /\ \A j \in 1..(i - 1) : normalize_key(d[j][1]) # key_n

HasMatch(d, key_n) == \E i \in 1..Len(d) : normalize_key(d[i][1]) = key_n

\* GrantEmails without the test that the per-city address is non-empty
GrantEmails_EmptyOverrides(maps, city_n) ==
    LET emails_ == DictGet(maps.county, <<"g","r","a","n","t">>, <<>>)
    IN  IF Truthy(city_n) /\ DictHas(GRANT_CITY_ZONING_MAP, city_n)
        THEN Merge(emails_, [zoning |-> DictGet(GRANT_CITY_ZONING_MAP, city_n, "")])
        ELSE emails_

\* Step 1, lines 161-163: the Grant entry with the per-city zoning put over it
GrantEmails(maps, city_n) ==
    LET emails_ == DictGet(maps.county, <<"g","r","a","n","t">>, <<>>)
    IN  IF /\ Truthy(city_n)
           /\ DictHas(GRANT_CITY_ZONING_MAP, city_n)
           /\ DictGet(GRANT_CITY_ZONING_MAP, city_n, "") # ""
        THEN Merge(emails_, [zoning |-> DictGet(GRANT_CITY_ZONING_MAP, city_n, "")])
        ELSE emails_

\* get_emails_for_location with the city lookup placed before the county lookup
get_emails_for_location_CityFirst(maps, city, county) ==
    LET city_n == normalize_key(city)
        county_n == normalize_key(county)
    IN  IF county_n = <<"g","r","a","n","t">>
        THEN Merge(DEFAULT_EMAILS, GrantEmails(maps, city_n))
        ELSE IF Truthy(city_n) /\ HasMatch(maps.city, city_n)
        THEN Merge(DEFAULT_EMAILS, maps.city[FirstMatch(maps.city, city_n)][2])
        ELSE IF Truthy(county_n) /\ HasMatch(maps.county, county_n)
        THEN Merge(DEFAULT_EMAILS, maps.county[FirstMatch(maps.county, county_n)][2])
        ELSE DEFAULT_EMAILS

\* get_emails_for_location with the city looked up by "city_n in CITY_EMAIL_MAP",
\* the keys of the table left as they are stored
get_emails_for_location_RawCityKeys(maps, city, county) ==
    LET city_n == normalize_key(city)
        county_n == normalize_key(county)
    IN  IF county_n = <<"g","r","a","n","t">>
        THEN Merge(DEFAULT_EMAILS, GrantEmails(maps, city_n))
        ELSE IF Truthy(county_n) /\ HasMatch(maps.county, county_n)
        THEN Merge(DEFAULT_EMAILS, maps.county[FirstMatch(maps.county, county_n)][2])
        ELSE IF Truthy(city_n) /\ DictHas(maps.city, city_n)
        THEN Merge(DEFAULT_EMAILS, DictGet(maps.city, city_n, <<>>))
        ELSE DEFAULT_EMAILS

get_emails_for_location(maps, city, county) ==
    LET city_n == normalize_key(city)
        county_n == normalize_key(county)
    IN  IF county_n = <<"g","r","a","n","t">>
        THEN Merge(DEFAULT_EMAILS, GrantEmails(maps, city_n))
        ELSE IF Truthy(county_n) /\ HasMatch(maps.county, county_n)
        THEN Merge(DEFAULT_EMAILS, maps.county[FirstMatch(maps.county, county_n)][2])
        ELSE IF Truthy(city_n) /\ HasMatch(maps.city, city_n)
        THEN Merge(DEFAULT_EMAILS, maps.city[FirstMatch(maps.city, city_n)][2])
        ELSE DEFAULT_EMAILS

\* Rows mappings.csv may hold
CsvRows ==
    { <<<<"c","o","u","n","t","y">>, <<"G","r","a","n","t">>, "pva@grant.csv", "zoning@grant.csv">>,
      <<<<"C","o","u","n","t","y"," ">>, <<" ","o","w","e","n">>, " ", "zoning@owen.csv">>,
      <<<<"c","o","u","n","t","y">>, <<"g","r","a","n","t">>, "", "zoning@grant2.csv">>,
      <<<<"c","i","t","y">>, <<"C","r","i","t","t","e","n","d","e","n">>, "pva@crittenden.csv">>,
      <<<<"c","o","u","n","t","y">>, <<"k","e","n","t","o","n">> >>,
      <<<<"t","o","w","n">>, <<"b","o","o","n","e">>, "pva@town.csv", "zoning@town.csv">> }

\* Rows read from mappings.csv in one start of the program
MaxCsvRows == 2

CityInputs ==
    { None, <<>>,
      <<"C","r","i","t","t","e","n","d","e","n">>,
      <<" ","D","r","y"," "," ","R","i","d","g","e">>,
      <<"c","o","r","i","n","t","h">>,
      <<"s","p","r","i","n","g","f","i","e","l","d"," ">>,
      <<"M","e","t","r","o","p","o","l","i","s">>,
      <<"N","o","w","h","e","r","e">> }

CountyInputs ==
    { None, <<" ">>,
      <<"G","r","a","n","t">>,
      <<" ","g","r","a","n","t","\t">>,
      <<"O","w","e","n">>,
      <<"b","o","o","n","e">>,
      <<"K","E","N","T","O","N">>,
      <<"N","o","w","h","e","r","e">> }

\* __main__ reads one more row of mappings.csv, before any request is served
load_email_mappings_from_csv(row) ==
    /\ query = <<>>
    /\ Len(csvRows) < MaxCsvRows
    /\ csvRows' = Append(csvRows, row)
    /\ UNCHANGED <<query, answer, dbVars, reqVars>>

\* The call get_emails_for_location(city, county) of a request; the tables do
\* not change after start-up, so one call per behaviour shows every result
resolve(city, county) ==
    /\ query = <<>>
    /\ query' = <<city, county>>
    /\ answer' = get_emails_for_location(Maps, city, county)
    /\ UNCHANGED <<csvRows, dbVars, reqVars>>

ResolveNext ==
    \/ \E row \in CsvRows : load_email_mappings_from_csv(row)
    \/ \E city \in CityInputs, county \in CountyInputs : resolve(city, county)

ResolveInit == DbInit /\ smtp = "unconfigured" /\ ResInit /\ ReqInit

ResolveSpec == ResolveInit /\ [][ResolveNext]_vars

\* ---------------------------------------------- extract_city_from_address
\* Index of the first comma of s, Len(s) + 1 if there is none
FirstComma(s) ==
    IF \E i \in 1..Len(s) : s[i] = ","
    THEN CHOOSE i \in 1..Len(s) : s[i] = "," /\ \A j \in 1..(i - 1) : s[j] # ","
    ELSE Len(s) + 1

\* str.split(","): one more piece than there are commas, pieces may be empty
RECURSIVE SplitComma(_)
SplitComma(s) ==
    IF FirstComma(s) > Len(s) THEN <<s>>
    ELSE <<SubSeq(s, 1, FirstComma(s) - 1)>>
             \o SplitComma(SubSeq(s, FirstComma(s) + 1, Len(s)))

\* [p.strip() for p in pieces if p.strip()]
RECURSIVE StrippedNonEmpty(_)
StrippedNonEmpty(pieces) ==
    IF pieces = <<>> THEN <<>>
    ELSE (IF Strip(Head(pieces)) # <<>> THEN <<Strip(Head(pieces))>> ELSE <<>>)
             \o StrippedNonEmpty(Tail(pieces))

\* extract_city_from_address returning the last component (parts[-1])
extract_city_from_address_Last(addr) ==
    IF ~Truthy(addr) THEN None
    ELSE LET parts == StrippedNonEmpty(SplitComma(addr))
         IN  IF Len(parts) >= 2 THEN parts[Len(parts)] ELSE None

extract_city_from_address(addr) ==
    IF ~Truthy(addr) THEN None
    ELSE LET parts == StrippedNonEmpty(SplitComma(addr))
         IN  IF Len(parts) >= 2 THEN parts[Len(parts) - 1] ELSE None

\* Longest address the parser is run on
MaxAddrLen == 5

\* The characters of those addresses: two letters, the comma, a blank
AddrChars == {"a", "b", ",", " "}

\* Every address of at most MaxAddrLen characters, and the absent address
Addresses ==
    {None} \cup UNION { [1..n -> AddrChars] : n \in 0..MaxAddrLen }

\* One call extract_city_from_address(address)
extract_city_call ==
    /\ parsed = <<>>
    /\ parsed' = <<extract_city_from_address(address)>>
    /\ UNCHANGED <<address, sendreq, dbVars, resVars>>

\* The address the parser is given is any of Addresses
ExtractInit ==
    /\ DbInit /\ smtp = "unconfigured" /\ ResInit
    /\ address \in Addresses
    /\ parsed = <<>>
    /\ sendreq = NoSendReq

ExtractNext == extract_city_call

ExtractSpec == ExtractInit /\ [][ExtractNext]_vars

\* ----------------------------------------------------------- send_requests
\* Bodies of POST /api/send-requests the model draws from (send_to_* absent
\* is its default True)
SendPayloads ==
    { [json |-> "ok", address |-> <<"1"," ","A",",","O","w","e","n","t","o","n",",","K","Y">>, city |-> None, county |-> <<"O","w","e","n">>,
       send_to_pva |-> TRUE, send_to_zoning |-> TRUE],
      [json |-> "ok", address |-> <<"1"," ","A",",","O","w","e","n","t","o","n",",","K","Y">>, city |-> None, county |-> <<" ","o","w","e","n"," ">>,
       send_to_pva |-> TRUE, send_to_zoning |-> FALSE],
      [json |-> "ok", address |-> <<"1"," ","A",",","S","p","r","i","n","g","f","i","e","l","d",",","I","L">>, city |-> None, county |-> None,
       send_to_pva |-> TRUE, send_to_zoning |-> TRUE],
      [json |-> "ok", address |-> <<"1"," ","A",","," ","C","o","r","i","n","t","h"," ",",","K","Y">>, city |-> None, county |-> <<"G","r","a","n","t">>,
       send_to_pva |-> TRUE, send_to_zoning |-> TRUE],
      [json |-> "ok", address |-> <<"1"," ","A",",","O","w","e","n","t","o","n",",","K","Y">>, city |-> <<"C","r","i","t","t","e","n","d","e","n">>, county |-> <<"G","R","A","N","T">>,
       send_to_pva |-> FALSE, send_to_zoning |-> TRUE],
      [json |-> "ok", address |-> <<"1"," ","A">>, city |-> None, county |-> <<"b","o","o","n","e">>,
       send_to_pva |-> FALSE, send_to_zoning |-> TRUE],
      [json |-> "ok", address |-> <<"1"," ","A">>, city |-> <<"N","o","w","h","e","r","e">>, county |-> None,
       send_to_pva |-> FALSE, send_to_zoning |-> FALSE],
      [json |-> "ok", address |-> <<>>, city |-> None, county |-> <<"b","o","o","n","e">>,
       send_to_pva |-> TRUE, send_to_zoning |-> TRUE],
      [json |-> "ok", address |-> None, city |-> <<"M","e","t","r","o","p","o","l","i","s">>, county |-> None,
       send_to_pva |-> TRUE, send_to_zoning |-> TRUE],
      [json |-> "invalid", address |-> None, city |-> None, county |-> None,
       send_to_pva |-> TRUE, send_to_zoning |-> TRUE] }

\* What a role's slot of "results" holds: {"skipped": True}, the "No ...
\* recipient configured" error, or what send_email_via_smtp returned (its
\* exception, caught here, as {"error": str(e)})
RoleResult(requested, to, cfg, net) ==
    IF ~requested THEN "skipped"
    ELSE IF to = "" THEN "norecipient"
    ELSE IF send_email_via_smtp(cfg, net) = "raise" THEN "raised"
    ELSE send_email_via_smtp(cfg, net)

\* "error" in result
HasError(result) == result \in {"norecipient", "error", "raised"}

\* The call of send_email_via_smtp a role's slot stands for, if there was one
RoleSends(role, requested, to, result) ==
    IF requested /\ to # ""
    THEN << [role |-> role, to |-> to, result |-> result] >>
    ELSE <<>>

\* success with "or" between the two roles
success_Either(send_to_pva, send_to_zoning, results) ==
    \/ (IF send_to_pva THEN ~HasError(results.pva) ELSE TRUE)
    \/ (IF send_to_zoning THEN ~HasError(results.zoning) ELSE TRUE)

\* lines 516-519
success(send_to_pva, send_to_zoning, results) ==
    /\ (IF send_to_pva THEN ~HasError(results.pva) ELSE TRUE)
    /\ (IF send_to_zoning THEN ~HasError(results.zoning) ELSE TRUE)

\* POST /api/send-requests, the whole handler.  tpl is what rendering the two
\* templates does ("ok", "FileNotFoundError", "Exception"), netP and netZ what
\* the network does to the PVA and to the zoning send.
send_requests(data, tpl, netP, netZ) ==
    /\ sendreq.state = "none"
    /\ query = <<>>
    /\ IF data.json = "invalid"
       THEN /\ sendreq' = [NoSendReq EXCEPT !.state = "invalid_json", !.status = 400]
            /\ UNCHANGED <<query, answer>>
       ELSE IF ~Truthy(data.address)
       THEN /\ sendreq' = [NoSendReq EXCEPT !.state = "missing_address",
                                            !.address = data.address, !.status = 400]
            /\ UNCHANGED <<query, answer>>
       ELSE LET city == OrElse(data.city, extract_city_from_address(data.address))
                county == data.county
                emails_ == get_emails_for_location(Maps, city, county)
                req == [NoSendReq EXCEPT !.address = data.address, !.city = city,
                                         !.county = county,
                                         !.send_to_pva = data.send_to_pva,
                                         !.send_to_zoning = data.send_to_zoning,
                                         !.emails_used = emails_]
                results == [pva |-> RoleResult(data.send_to_pva, emails_.pva, smtp, netP),
                            zoning |-> RoleResult(data.send_to_zoning, emails_.zoning,
                                                  smtp, netZ)]
                ok == success(data.send_to_pva, data.send_to_zoning, results)
            IN  /\ query' = <<city, county>>
                /\ answer' = emails_
                /\ IF tpl # "ok"
                   THEN sendreq' = [req EXCEPT !.state = "template", !.status = 500]
                   ELSE sendreq' =
                            [req EXCEPT
                               !.state = "sent",
                               !.results = results,
                               !.sends = RoleSends("pva", data.send_to_pva, emails_.pva,
                                                   results.pva)
                                         \o RoleSends("zoning", data.send_to_zoning,
                                                      emails_.zoning, results.zoning),
                               !.success = ok,
                               !.status = IF ok THEN 200 ELSE 500]
    /\ UNCHANGED <<csvRows, address, parsed, dbVars>>

\* Rows mappings.csv holds when /api/send-requests is exercised
SendCsvRows ==
    { row \in CsvRows : Len(row) = 4 /\ Lower(Strip(row[1])) = <<"c","o","u","n","t","y">> }

SendNext ==
    \/ \E row \in SendCsvRows : load_email_mappings_from_csv(row)
    \/ \E data \in SendPayloads, tpl \in {"ok", "FileNotFoundError", "Exception"},
          netP \in {"ok", "fail"}, netZ \in {"ok", "fail"} :
           send_requests(data, tpl, netP, netZ)

SendSpec == Init /\ [][SendNext]_vars

\* ====================================================== contact store properties
Done(p, kind) == pc[p] = "done" /\ loc[p].kind = kind

OneRowPerEmail ==
    \A i \in 1..Len(emails), j \in 1..Len(emails) :
        i # j => emails[i].email # emails[j].email

\* C1: of two confirm requests for the same token that both found the row
\* unconfirmed and marked it confirmed, there is never more than one: two
\* overlapping confirmations are never both a Confirmed outcome.
C1_OneConfirmedPerToken ==
    \A p \in Procs, q \in Procs :
        ( /\ p # q
          /\ Done(p, "confirm_email") /\ Done(q, "confirm_email")
          /\ loc[p].token = loc[q].token
          /\ loc[p].branch = "Confirmed" )
        => loc[q].branch # "Confirmed"

\* C2: confirm has three distinguishable outcomes: a pending token gives the
\* 200 confirmation page and a confirmed, stamped row; a token whose row is
\* already confirmed gives a 400 distinct from success; an unknown token gives
\* a 400.
C2_ThreeOutcomes ==
    \A p \in Procs :
        Done(p, "confirm_email") =>
            /\ loc[p].branch = "Confirmed" =>
                   /\ resp[p].status = 200
                   /\ emails[loc[p].row[1]].confirmed = 1
                   /\ emails[loc[p].row[1]].confirmed_at # 0
            /\ loc[p].branch = "AlreadyConfirmed" => resp[p].status = 400
            /\ loc[p].branch = "NotFound" => resp[p].status = 400

\* C3: a submit for an email whose row was confirmed when the request arrived
\* ends at the SELECT with the AlreadyConfirmed return; it commits nothing to
\* the table (its token is never stored, no row is written by it) and hands no
\* verification email to the transport.
C3_SubmitOnConfirmedIsRefused ==
    \A p \in Procs :
        ( /\ loc[p].kind = "save_email"
          /\ loc[p].token # None
          /\ \E i \in loc[p].confirmed0 : emails[i].email = loc[p].email )
        => /\ pc[p] \in {"add_select", "done"}
           /\ pc[p] = "done" => loc[p].branch = "AlreadyConfirmed"
           /\ \A i \in 1..Len(stored) : stored[i][1] # loc[p].token
           /\ \A i \in 1..Len(emails) : emails[i].token # loc[p].token
           /\ \A m \in outbox : m.token # loc[p].token

C3_Witness ==
    \E p \in Procs :
        /\ Done(p, "save_email")
        /\ \E i \in loc[p].confirmed0 : emails[i].email = loc[p].email
        /\ loc[p].branch = "AlreadyConfirmed"

\* C4: POST /save_email for a well-formed email whose row is confirmed is
\* answered 400 and not as a success.
C4_AlreadyConfirmedIs400 ==
    \A p \in Procs :
        (Done(p, "save_email") /\ loc[p].branch = "AlreadyConfirmed")
        => (resp[p].status = 400 /\ ~resp[p].success)

\* C5: POST /save_email is answered 500 when the transport failed to deliver
\* the verification email, and 200 "Verification email sent" only when the
\* email was dispatched or simulated.
C5_TransportFailureIs500 ==
    \A p \in Procs :
        Done(p, "save_email") =>
            /\ loc[p].send = "error" => resp[p].status = 500
            /\ (resp[p].status = 200 /\ loc[p].branch \in {"Updated", "Inserted"})
                   => loc[p].send \in {"ok", "simulated"}

\* The commits of add_pending_email that a later commit for the same email
\* has overwritten
Superseded ==
    {i \in 1..Len(stored) : \E j \in (i + 1)..Len(stored) : stored[j][2] = stored[i][2]}

\* The email a token was last committed for (None if it never was)
EmailOfToken(token) ==
    IF \E i \in 1..Len(stored) : stored[i][1] = token
    THEN stored[CHOOSE i \in 1..Len(stored) : stored[i][1] = token][2]
    ELSE None

\* C6: with requests served one after the other, a resubmission of a pending
\* email stores a different token in the same single row; the token it
\* replaced is held by no row, confirm on it answers NotFound (400) and
\* confirms nothing, and confirm on the token now in a pending row answers
\* Confirmed and the row is confirmed.
C6_ResubmitInvalidatesToken ==
    /\ OneRowPerEmail
    /\ \A i \in 1..Len(stored), j \in 1..Len(stored) :
           i # j => stored[i][1] # stored[j][1]
    /\ \A i \in Superseded, r \in 1..Len(emails) : emails[r].token # stored[i][1]
    /\ \A p \in Procs :
           Done(p, "confirm_email") =>
               /\ (\E i \in Superseded : stored[i][1] = loc[p].token) =>
                      /\ loc[p].branch = "NotFound"
                      /\ resp[p].status = 400
                      /\ ConfirmedIds(emails) = loc[p].confirmed0
               /\ ( \E i \in 1..Len(stored) \ Superseded :
                        /\ stored[i][1] = loc[p].token
                        /\ \A r \in loc[p].confirmed0 : emails[r].email # stored[i][2] ) =>
                      /\ loc[p].branch = "Confirmed"
                      /\ resp[p].status = 200
                      /\ \E r \in ConfirmedIds(emails) \ loc[p].confirmed0 :
                             /\ emails[r].token = loc[p].token
                             /\ emails[r].email = EmailOfToken(loc[p].token)

\* Two commits for one email, then confirm on the first token (NotFound, the
\* row still pending)
C6_Witness ==
    \E p \in Procs :
        /\ Done(p, "confirm_email")
        /\ \E i \in Superseded : stored[i][1] = loc[p].token
        /\ loc[p].branch = "NotFound"
        /\ Len(emails) = 1 /\ emails[1].confirmed = 0
        /\ emails[1].token = stored[Len(stored)][1]

\* C7: the table never holds two rows for one email, and no submit ends in
\* the IntegrityError of the UNIQUE constraint.
C7_OneRowAndNoIntegrityError ==
    /\ OneRowPerEmail
    /\ \A p \in Procs : Done(p, "save_email") => loc[p].branch # "IntegrityError"

\* C8: rows are never deleted and keep their id and email; a confirmed row
\* stays confirmed in every later state; each row goes from pending to
\* confirmed at most once.
C8_ConfirmedIsTerminal ==
    /\ [](\A i \in 1..Len(flips) : flips[i] <= 1)
    /\ [][ \A i \in 1..Len(emails) :
               /\ i <= Len(emails')
               /\ emails'[i].id = emails[i].id
               /\ emails'[i].email = emails[i].email
               /\ emails[i].confirmed = 1 => emails'[i].confirmed = 1 ]_vars

\* A row confirmed once by a request still holding its response, and since
\* written by a submit that had read it as pending: it is still confirmed
C8_Witness ==
    \E i \in 1..Len(emails), p \in Procs :
        /\ emails[i].confirmed = 1
        /\ flips[i] = 1
        /\ Done(p, "confirm_email")
        /\ loc[p].branch = "Confirmed"
        /\ loc[p].row[1] = i
        /\ emails[i].token # loc[p].token

\* ============================================================ resolver properties
Roles == {"pva", "zoning"}

QueryCity == normalize_key(query[1])
QueryCounty == normalize_key(query[2])

\* The items of the county table whose normalized key is the county asked for
CountyMatches ==
    {i \in 1..Len(Maps.county) :
        Truthy(QueryCounty) /\ normalize_key(Maps.county[i][1]) = QueryCounty}

\* The items of the city table whose normalized key is the city asked for
CityMatches ==
    {i \in 1..Len(Maps.city) :
        Truthy(QueryCity) /\ normalize_key(Maps.city[i][1]) = QueryCity}

\* entry[role] if the entry defines it, the default otherwise
Backfilled(entry, role) ==
    IF role \in DOMAIN entry THEN entry[role] ELSE DEFAULT_EMAILS[role]

\* The non-empty address the Grant per-city table holds for the city asked
\* for, "" if it holds none
GrantOverride ==
    IF \E i \in 1..Len(GRANT_CITY_ZONING_MAP) : GRANT_CITY_ZONING_MAP[i][1] = QueryCity
    THEN GRANT_CITY_ZONING_MAP[
             CHOOSE i \in 1..Len(GRANT_CITY_ZONING_MAP) :
                 GRANT_CITY_ZONING_MAP[i][1] = QueryCity][2]
    ELSE ""

\* The addresses of the city table
CityTableValues ==
    UNION { {Maps.city[i][2][role] : role \in DOMAIN Maps.city[i][2]} :
              i \in 1..Len(Maps.city) }

\* C9, as the specification states it: whenever the county asked for matches a key of the county
\* table, the answer is that entry with the roles it lacks filled from the
\* defaults, whatever the city, and holds no address of the city table.
C9_CountyEntryAlways ==
    (query # <<>> /\ CountyMatches # {}) =>
        /\ \E i \in CountyMatches :
               \A role \in Roles : answer[role] = Backfilled(Maps.county[i][2], role)
        /\ \A role \in Roles : answer[role] \notin CityTableValues

\* C9, restated: the same, except that for the county "grant" the zoning is
\* the per-city address of the Grant table when that table holds a non-empty
\* one for the city.
C9_CountyEntryExceptGrantOverride ==
    (query # <<>> /\ CountyMatches # {}) =>
        /\ DOMAIN answer = Roles
        /\ \E i \in CountyMatches :
               /\ answer.pva = Backfilled(Maps.county[i][2], "pva")
               /\ answer.zoning =
                      IF QueryCounty = <<"g","r","a","n","t">> /\ GrantOverride # ""
                      THEN GrantOverride
                      ELSE Backfilled(Maps.county[i][2], "zoning")
        /\ \A role \in Roles : answer[role] \notin CityTableValues

\* A county of the table other than grant asked for together with a city that
\* has its own city-table entry
C9_Witness ==
    /\ query # <<>>
    /\ CountyMatches # {}
    /\ CityMatches # {}
    /\ QueryCounty # <<"g","r","a","n","t">>
    /\ \E i \in CountyMatches : answer.pva = Maps.county[i][2].pva

\* The Grant entry: the first item of the county table whose key normalizes
\* to "grant"
GrantEntry ==
    Maps.county[CHOOSE i \in 1..Len(Maps.county) :
                    /\ normalize_key(Maps.county[i][1]) = <<"g","r","a","n","t">>
                    /\ \A j \in 1..(i - 1) :
                           normalize_key(Maps.county[j][1]) # <<"g","r","a","n","t">>][2]

\* C10: for a county normalizing to "grant" the answer holds the Grant pva
\* (the default if the entry has none); its zoning is the per-city address
\* when the Grant per-city table holds a non-empty one for the normalized
\* city, and otherwise the Grant entry's zoning if it has one, else the
\* default zoning.
C10_GrantZoning ==
    (query # <<>> /\ QueryCounty = <<"g","r","a","n","t">>) =>
        /\ DOMAIN answer = Roles
        /\ answer.pva = Backfilled(GrantEntry, "pva")
        /\ GrantOverride # "" => answer.zoning = GrantOverride
        /\ GrantOverride = "" => answer.zoning = Backfilled(GrantEntry, "zoning")

\* Grant asked for with a city that has a per-city address, while the Grant
\* entry has a zoning of its own (from mappings.csv)
C10_Witness ==
    /\ query # <<>>
    /\ QueryCounty = <<"g","r","a","n","t">>
    /\ GrantOverride # ""
    /\ "zoning" \in DOMAIN GrantEntry
    /\ answer.zoning = GrantOverride
    /\ answer.zoning # GrantEntry.zoning

\* The least element of a non-empty set of indices
First(S) == CHOOSE i \in S : \A j \in S : i <= j

\* The table entry the lookup settles on: the Grant entry for the county
\* "grant", else the first county item matching the county, else the first
\* city item matching the city, else no entry (the empty record)
MatchedEntry ==
    IF QueryCounty = <<"g","r","a","n","t">> THEN GrantEntry
    ELSE IF CountyMatches # {} THEN Maps.county[First(CountyMatches)][2]
    ELSE IF CityMatches # {} THEN Maps.city[First(CityMatches)][2]
    ELSE <<>>

\* The zoning of a Grant lookup comes from the per-city table
Overridden(role) ==
    role = "zoning" /\ QueryCounty = <<"g","r","a","n","t">> /\ GrantOverride # ""

\* C11: a role for which the matched entry holds the empty string is answered
\* as the empty string, not as the default, while a role the entry lacks is
\* answered as the default; send_requests, once it reaches its sends, hands
\* no message of an empty role to the transport (nor any to that role's
\* default address): asked to send it, it records the "No ... recipient
\* configured" error and answers 500, told not to, it records "skipped".
C11_EmptyRoleNotBackfilled ==
    query # <<>> =>
        \A role \in Roles :
            /\ (role \in DOMAIN MatchedEntry /\ ~Overridden(role) /\ MatchedEntry[role] = "") =>
                   /\ answer[role] = ""
                   /\ answer[role] # DEFAULT_EMAILS[role]
                   /\ sendreq.state = "sent" =>
                          /\ sendreq.emails_used[role] = ""
                          /\ \A i \in 1..Len(sendreq.sends) :
                                 /\ sendreq.sends[i].role # role
                                 /\ sendreq.sends[i].to # DEFAULT_EMAILS[role]
                          /\ sendreq["send_to_" \o role] =>
                                 /\ sendreq.results[role] = "norecipient"
                                 /\ ~sendreq.success
                                 /\ sendreq.status = 500
                          /\ ~sendreq["send_to_" \o role] =>
                                 sendreq.results[role] = "skipped"
            /\ (role \notin DOMAIN MatchedEntry /\ ~Overridden(role)) =>
                   answer[role] = DEFAULT_EMAILS[role]

\* A request for Owen county with both roles asked for: the PVA message goes
\* out, the zoning slot holds the "no recipient" error
C11_Witness ==
    /\ sendreq.state = "sent"
    /\ QueryCounty = <<"o","w","e","n">>
    /\ "zoning" \in DOMAIN MatchedEntry
    /\ MatchedEntry.zoning = ""
    /\ sendreq.send_to_pva /\ sendreq.send_to_zoning
    /\ sendreq.results.zoning = "norecipient"
    /\ Len(sendreq.sends) = 1
    /\ sendreq.sends[1].role = "pva"

\* C12: when the county asked for is absent or matches no key of the county
\* table, the answer is the entry of a city-table key matching the city, its
\* missing roles filled from the defaults, if there is such a key, and
\* otherwise exactly the default pair (so for city None, county None).
C12_CityEntryOrDefault ==
    (query # <<>> /\ CountyMatches = {}) =>
        /\ DOMAIN answer = Roles
        /\ CityMatches # {} =>
               \E i \in CityMatches :
                   \A role \in Roles : answer[role] = Backfilled(Maps.city[i][2], role)
        /\ CityMatches = {} => answer = DEFAULT_EMAILS
        /\ (query[1] = None /\ query[2] = None) => answer = DEFAULT_EMAILS

\* A city whose entry (from mappings.csv) has a pva only, asked for with a
\* county the county table does not hold: the pva of the entry, the default
\* zoning
C12_Witness ==
    /\ query # <<>>
    /\ query[2] # None
    /\ CountyMatches = {}
    /\ CityMatches # {}
    /\ \E i \in CityMatches :
           /\ DOMAIN Maps.city[i][2] = {"pva"}
           /\ answer.pva = Maps.city[i][2].pva
    /\ answer.zoning = DEFAULT_EMAILS.zoning

\* ============================================================ parser properties
\* The places that bound the comma-separated components of the address: before
\* its first character, each comma, after its last character
Bounds_ == {0, Len(address) + 1} \cup {i \in 1..Len(address) : address[i] = ","}

\* The component that starts after the bound b: up to the next bound
Component(b) ==
    SubSeq(address, b + 1, (CHOOSE c \in Bounds_ : c > b /\ \A d \in Bounds_ : d > b => c <= d) - 1)

\* The bounds that start a component with something other than blanks in it
Remaining ==
    {b \in Bounds_ : b <= Len(address) /\ \E i \in 1..Len(Component(b)) : ~IsSpace(Component(b)[i])}

\* A component without its leading and trailing blanks: from its first to its
\* last non-blank character
Trimmed(c) ==
    LET I == {i \in 1..Len(c) : ~IsSpace(c[i])}
    IN  SubSeq(c, CHOOSE i \in I : \A j \in I : i <= j, CHOOSE i \in I : \A j \in I : j <= i)

\* C13: the call returns a value for every address (it does not raise): None
\* for the absent and for the empty address and when fewer than two of the
\* comma-separated components are other than blank; otherwise the trimmed
\* second-to-last of the components that are not blank.
C13_SecondToLastComponent ==
    parsed # <<>> =>
        IF address = None \/ address = <<>> THEN parsed[1] = None
        ELSE IF Cardinality(Remaining) >= 2
        THEN \E b \in Remaining :
                 /\ Cardinality({c \in Remaining : c > b}) = 1
                 /\ parsed[1] = Trimmed(Component(b))
        ELSE parsed[1] = None

\* An address with an empty component and a blank to trim, parsed to a city
C13_Witness ==
    /\ parsed # <<>>
    /\ address # None
    /\ Cardinality(Bounds_) > Cardinality(Remaining) + 1
    /\ Cardinality(Remaining) >= 2
    /\ \E i \in 1..Len(address) : IsSpace(address[i])
    /\ parsed[1] # None

\* ============================================================ dispatch properties
\* The role was asked for and its slot of "results" carries an error
Failed(role) ==
    /\ sendreq["send_to_" \o role]
    /\ sendreq.results[role] \in {"norecipient", "error", "raised"}

\* The calls of send_email_via_smtp made for the role
SendsOf(role) == {i \in 1..Len(sendreq.sends) : sendreq.sends[i].role = role}

\* C14: in a send_requests that reached its sends, each role asked for that
\* has a recipient gets exactly one send to that recipient, whatever became
\* of the other role's send, and its outcome is the role's result; a role
\* with send_to_* false is "skipped", gets no send and does not count; the
\* response is success with 200 exactly when no role asked for carries an
\* error, and 500 without success otherwise.
C14_SendsAreIndependent ==
    sendreq.state = "sent" =>
        /\ \A role \in Roles :
               /\ (sendreq["send_to_" \o role] /\ sendreq.emails_used[role] # "") =>
                      /\ Cardinality(SendsOf(role)) = 1
                      /\ \A i \in SendsOf(role) :
                             /\ sendreq.sends[i].to = sendreq.emails_used[role]
                             /\ sendreq.sends[i].result = sendreq.results[role]
               /\ ~sendreq["send_to_" \o role] =>
                      /\ sendreq.results[role] = "skipped"
                      /\ SendsOf(role) = {}
        /\ sendreq.success <=> (\A role \in Roles : ~Failed(role))
        /\ sendreq.status = 200 <=> sendreq.success
        /\ sendreq.status = 500 <=> (\E role \in Roles : Failed(role))

\* The PVA send failed in the transport, the zoning send was made all the
\* same and went through; the response is 500
C14_Witness ==
    /\ sendreq.state = "sent"
    /\ Len(sendreq.sends) = 2
    /\ sendreq.sends[1].role = "pva" /\ sendreq.sends[1].result = "error"
    /\ sendreq.sends[2].role = "zoning" /\ sendreq.sends[2].result = "ok"
    /\ sendreq.status = 500 /\ ~sendreq.success

\* ====================================================== token properties
\* C15: whatever the interleaving of a submit with a confirm for the same
\* pending row, no step changes the token, name, opt_in or created_at of a row
\* that is confirmed: the submit never writes its fresh token over a row that
\* is confirmed at the time of the write.
C15_ConfirmedRowNotOverwritten ==
    [][ \A i \in 1..Len(emails) :
            emails[i].confirmed = 1 =>
                /\ emails'[i].token = emails[i].token
                /\ emails'[i].name = emails[i].name
                /\ emails'[i].opt_in = emails[i].opt_in
                /\ emails'[i].created_at = emails[i].created_at ]_vars

\* ============================================================ normalization properties
\* The rows of mappings.csv with the letters of their keys in lower case
LowerKeys(rows) ==
    [i \in 1..Len(rows) |-> IF Len(rows[i]) >= 2
                            THEN [rows[i] EXCEPT ![2] = Lower(@)]
                            ELSE rows[i]]

\* The tables had the keys of mappings.csv been written in lower case
MapsLowerKeys ==
    LoadCsvRows([city |-> CITY_EMAIL_MAP, county |-> COUNTY_EMAIL_MAP], LowerKeys(csvRows))

\* C16: the answer does not depend on the letter case and the white space of
\* the city and county asked for (it is the answer for their normalized
\* forms), nor on the letter case the keys of the tables are stored in (it is
\* the answer the same rows give with their keys in lower case), in every
\* branch of the lookup.
C16_KeysMatchedAfterNormalization ==
    query # <<>> =>
        /\ answer = get_emails_for_location(Maps, normalize_key(query[1]),
                                            normalize_key(query[2]))
        /\ answer = get_emails_for_location(MapsLowerKeys, query[1], query[2])

\* C17: in every state reached by submits and confirms, in any interleaving,
\* no two rows hold the same token; and a step that takes a row from pending
\* to confirmed is the update of a confirm whose token was issued for that
\* row's email, and it confirms no other row.
C17_TokensUnique ==
    /\ [](\A i \in 1..Len(emails), j \in 1..Len(emails) :
              i # j => emails[i].token # emails[j].token)
    /\ [][ \A i \in 1..Len(emails) :
               (emails[i].confirmed = 0 /\ emails'[i].confirmed = 1) =>
                   /\ \E p \in Procs :
                          /\ pc[p] = "confirm_update" /\ pc'[p] = "done"
                          /\ EmailOfToken(loc[p].token) = emails[i].email
                   /\ \A j \in 1..Len(emails) :
                          j # i => emails'[j].confirmed = emails[j].confirmed ]_vars

\* Two rows, each with its own token; a confirm on the first row's token has
\* confirmed that row and left the other pending
C17_Witness ==
    \E p \in Procs :
        /\ Len(emails) = 2
        /\ Done(p, "confirm_email")
        /\ loc[p].branch = "Confirmed"
        /\ loc[p].token = emails[1].token
        /\ emails[1].confirmed = 1
        /\ emails[2].confirmed = 0
        /\ emails[2].token # None

====
